---- MODULE Spec2Model ----
(***************************************************************************)
(* TcpCubicSenderPackets (net/quic/congestion_control): the packet-counted *)
(* congestion-window controller of a QUIC connection.                      *)
(*                                                                         *)
(* The controller object is the record `sender`; every method of the class *)
(* is an operator from a controller record (and the call's arguments) to   *)
(* the controller record after the call, and an action that applies it.    *)
(* `twin` is a second controller that receives exactly the same calls.     *)
(* `observed` names the method under observation: after a call of it, `op` *)
(* and `prev` hold the call and the controller before it.                  *)
(*                                                                         *)
(* The collaborators cubic_ (Cubic), prr_ (PrrSender) and rtt_stats_ are   *)
(* separate objects whose fields are not fields of the controller: what    *)
(* cubic_ returns is an argument of the operators, and the notifications   *)
(* sent to them (Reset, OnApplicationLimited, OnPacketLost) change none of *)
(* the controller's fields.                                                *)
(***************************************************************************)
EXTENDS Integers, FiniteSets, Sequences, TLC

VARIABLES sender, twin, FLAGS_quic_sslr_byte_conservation,
          observed, op, prev, run

vars == <<sender, twin, FLAGS_quic_sslr_byte_conservation,
          observed, op, prev, run>>

----------------------------------------------------------------------------
(* Program constants *)

\* const QuicPacketCount kDefaultMinimumCongestionWindow = 2;
kDefaultMinimumCongestionWindow == 2

\* quic_protocol.h: the segment size of every packet <-> byte conversion.
kDefaultTCPMSS == 1460

\* quic_protocol.h: the clamp of SetCongestionWindowFromBandwidthAndRtt.
kMaxCongestionWindow == 200

kMinCongestionWindowForBandwidthResumption == 10

\* TcpCubicSenderBase: the emulated connections of a new controller.
kDefaultNumConnections == 2

\* QuicPacketCount is an unsigned integer type: arithmetic on it wraps.  The
\* model keeps the wrap-around at a width TLC's integers can hold.
kPacketCountModulus == 65536

----------------------------------------------------------------------------
(* Bounds of the model *)

\* Packet numbers handed to OnPacketSent are 1..MaxPacketNumber.
MaxPacketNumber == 1

\* max_tcp_congestion_window passed to the constructor.
MaxWindow == 4

\* stats_->slowstart_packets_lost is not counted beyond this.
MaxPacketsLost == 2

\* cubic_.CongestionWindowAfterAck returns the window plus 0..MaxCubicGrowth.
MaxCubicGrowth == 1

----------------------------------------------------------------------------
(* Argument domains *)

\* initial_tcp_congestion_window passed to the constructor.
InitialWindows == {MaxWindow - 1}

\* Arguments of SetCongestionWindowInPackets.
WindowArgs == {0, 1, MaxWindow + 1}

\* Arguments of SetMinCongestionWindowInPackets.
MinWindowArgs == {1}

\* Arguments of SetMaxCongestionWindow, in bytes.
MaxWindowByteArgs == {2 * kDefaultTCPMSS + (kDefaultTCPMSS - 1)}

\* bandwidth.ToBytesPerPeriod(rtt) of SetCongestionWindowFromBandwidthAndRtt.
BytesPerPeriodArgs == {0}

\* bandwidth.ToBytesPerPeriod(rtt) of a bandwidth estimate received from the
\* peer: nothing, just under and just over the resumption minimum, at and
\* over kMaxCongestionWindow, and the largest value of the model's integers.
BandwidthEstimates ==
    { 0,
      kMinCongestionWindowForBandwidthResumption * kDefaultTCPMSS - 1,
      (kMinCongestionWindowForBandwidthResumption + 1) * kDefaultTCPMSS
          + (kDefaultTCPMSS - 1),
      kMaxCongestionWindow * kDefaultTCPMSS,
      (kMaxCongestionWindow + 1) * kDefaultTCPMSS,
      2147483647 }

\* Arguments of SetNumEmulatedConnections.
ConnectionArgs == {1, 2}

\* lost_bytes of OnPacketLost.
LostBytesArgs == {kDefaultTCPMSS \div 2, kDefaultTCPMSS}

\* lost_bytes of an OnPacketLost call that reports more than one segment.
LargeLostBytesArgs == {2 * kDefaultTCPMSS}

----------------------------------------------------------------------------
(* Arithmetic of the source's types *)

Max(a, b) == IF a < b THEN b ELSE a

Min(a, b) == IF b < a THEN b ELSE a

\* A QuicPacketCount result, reduced to the type's range.
Wrap(x) == (x + kPacketCountModulus) % kPacketCountModulus

----------------------------------------------------------------------------
(* TcpCubicSenderBase and Cubic: the parts the controller consumes *)

\* TcpCubicSenderBase::InSlowStart
InSlowStart(c) == c.congestion_window < c.slowstart_threshold

\* TcpCubicSenderBase::RenoBeta: (num_connections - 1 + 0.7) / num_connections,
\* as the fraction RenoBetaNum / RenoBetaDen.
RenoBetaNum(c) == 10 * (c.num_connections - 1) + 7

RenoBetaDen(c) == 10 * c.num_connections

\* Cubic::CongestionWindowAfterPacketLoss: the multiplicative decrease.
CongestionWindowAfterPacketLoss(c) ==
    (c.congestion_window * RenoBetaNum(c)) \div RenoBetaDen(c)

----------------------------------------------------------------------------
(* TcpCubicSenderPackets *)

\* The constructor.
TcpCubicSenderPackets(reno, initial_tcp_congestion_window, max_tcp_congestion_window, sslr) ==
    [ reno                               |-> reno,
      slow_start_large_reduction         |-> sslr,
      num_connections                    |-> kDefaultNumConnections,
      congestion_window_count            |-> 0,
      congestion_window                  |-> initial_tcp_congestion_window,
      min_congestion_window              |-> kDefaultMinimumCongestionWindow,
      slowstart_threshold                |-> max_tcp_congestion_window,
      max_tcp_congestion_window          |-> max_tcp_congestion_window,
      initial_tcp_congestion_window      |-> initial_tcp_congestion_window,
      initial_max_tcp_congestion_window  |-> max_tcp_congestion_window,
      largest_sent_packet_number         |-> 0,
      largest_sent_at_last_cutback       |-> 0,
      last_cutback_exited_slowstart      |-> FALSE,
      slowstart_packets_lost             |-> 0,
      slowstart_bytes_lost               |-> 0,
      tcp_loss_events                    |-> 0 ]

\* SetCongestionWindowFromBandwidthAndRtt without the lower clamp.
SetCongestionWindowFromBandwidthAndRttUnfloored(c, bytes_per_period) ==
    LET new_congestion_window == bytes_per_period \div kDefaultTCPMSS
    IN  [c EXCEPT !.congestion_window =
            Min(new_congestion_window, kMaxCongestionWindow)]

SetCongestionWindowFromBandwidthAndRtt(c, bytes_per_period) ==
    LET new_congestion_window == bytes_per_period \div kDefaultTCPMSS
    IN  [c EXCEPT !.congestion_window =
            Max(Min(new_congestion_window, kMaxCongestionWindow),
                kMinCongestionWindowForBandwidthResumption)]

SetCongestionWindowInPackets(c, congestion_window) ==
    [c EXCEPT !.congestion_window = congestion_window]

SetMinCongestionWindowInPackets(c, congestion_window) ==
    [c EXCEPT !.min_congestion_window = congestion_window]

\* TcpCubicSenderBase::SetNumEmulatedConnections keeps at least one connection.
SetNumEmulatedConnections(c, num_connections) ==
    [c EXCEPT !.num_connections = Max(1, num_connections)]

SetMaxCongestionWindow(c, max_congestion_window) ==
    [c EXCEPT !.max_tcp_congestion_window =
                  max_congestion_window \div kDefaultTCPMSS]

ExitSlowstart(c) ==
    [c EXCEPT !.slowstart_threshold = c.congestion_window]

\* OnPacketLostBeforeCutback without the test of slow_start_large_reduction_:
\* every loss charged to slow start reduces the window.
OnPacketLostBeforeCutbackAlwaysReducing(c, lost_bytes, byte_conservation) ==
    IF c.last_cutback_exited_slowstart
    THEN LET window == Max(Wrap(c.congestion_window - 1),
                           c.min_congestion_window)
         IN  [c EXCEPT !.slowstart_packets_lost = @ + 1,
                       !.slowstart_bytes_lost = @ + lost_bytes,
                       !.congestion_window = window,
                       !.slowstart_threshold = window]
    ELSE c

\* OnPacketLost, the branch packet_number <= largest_sent_at_last_cutback_.
OnPacketLostBeforeCutback(c, lost_bytes, byte_conservation) ==
    IF c.last_cutback_exited_slowstart
    THEN LET packets_lost == c.slowstart_packets_lost + 1
             bytes_lost   == c.slowstart_bytes_lost + lost_bytes
             counted == [c EXCEPT !.slowstart_packets_lost = packets_lost,
                                  !.slowstart_bytes_lost = bytes_lost]
             reduce  == IF byte_conservation
                        THEN \/ packets_lost = 1
                             \/ (bytes_lost \div kDefaultTCPMSS) >
                                ((bytes_lost - lost_bytes) \div kDefaultTCPMSS)
                        ELSE TRUE
             window  == IF reduce
                        THEN Max(Wrap(c.congestion_window - 1),
                                 c.min_congestion_window)
                        ELSE c.congestion_window
         IN  IF c.slow_start_large_reduction
             THEN [counted EXCEPT !.congestion_window = window,
                                  !.slowstart_threshold = window]
             ELSE counted
    ELSE c

\* WindowAfterCutback without the minimum clamp.
WindowAfterCutbackUnclamped(c) ==
    IF c.slow_start_large_reduction /\ InSlowStart(c)
    THEN Wrap(c.congestion_window - 1)
    ELSE (c.congestion_window * RenoBetaNum(c)) \div RenoBetaDen(c)

\* OnPacketLost, the window after the reduction rule and the minimum clamp.
WindowAfterCutback(c) ==
    LET reduced == IF c.slow_start_large_reduction /\ InSlowStart(c)
                   THEN Wrap(c.congestion_window - 1)
                   ELSE IF c.reno
                   THEN (c.congestion_window * RenoBetaNum(c)) \div RenoBetaDen(c)
                   ELSE CongestionWindowAfterPacketLoss(c)
    IN  IF reduced < c.min_congestion_window
        THEN c.min_congestion_window
        ELSE reduced

\* OnPacketLostCutback without the assignment of the threshold.
OnPacketLostCutbackKeepingThreshold(c) ==
    LET window == WindowAfterCutback(c)
    IN  [c EXCEPT !.tcp_loss_events = c.tcp_loss_events + 1,
                  !.last_cutback_exited_slowstart = InSlowStart(c),
                  !.slowstart_packets_lost =
                      IF InSlowStart(c) THEN @ + 1 ELSE @,
                  !.congestion_window = window,
                  !.largest_sent_at_last_cutback = c.largest_sent_packet_number,
                  !.congestion_window_count = 0]

\* OnPacketLost, the branch of a loss sent after the last cutback.
OnPacketLostCutback(c) ==
    LET window == WindowAfterCutback(c)
    IN  [c EXCEPT !.tcp_loss_events = c.tcp_loss_events + 1,
                  !.last_cutback_exited_slowstart = InSlowStart(c),
                  !.slowstart_packets_lost =
                      IF InSlowStart(c) THEN @ + 1 ELSE @,
                  !.congestion_window = window,
                  !.slowstart_threshold = window,
                  !.largest_sent_at_last_cutback = c.largest_sent_packet_number,
                  !.congestion_window_count = 0]

OnPacketLost(c, packet_number, lost_bytes, byte_conservation) ==
    IF packet_number <= c.largest_sent_at_last_cutback
    THEN OnPacketLostBeforeCutback(c, lost_bytes, byte_conservation)
    ELSE OnPacketLostCutback(c)

\* RenoCongestionAvoidance comparing the bare count with the window, as
\* for a single connection.
RenoCongestionAvoidanceOneConnection(c) ==
    LET count == c.congestion_window_count + 1
    IN  IF count >= c.congestion_window
        THEN [c EXCEPT !.congestion_window = Wrap(c.congestion_window + 1),
                       !.congestion_window_count = 0]
        ELSE [c EXCEPT !.congestion_window_count = count]

\* RenoCongestionAvoidance without the increment of the window: a full count
\* is only reset.
RenoCongestionAvoidanceOnlyResetting(c) ==
    LET count == c.congestion_window_count + 1
    IN  IF count * c.num_connections >= c.congestion_window
        THEN [c EXCEPT !.congestion_window_count = 0]
        ELSE [c EXCEPT !.congestion_window_count = count]

\* MaybeIncreaseCwnd, Reno congestion avoidance.
RenoCongestionAvoidance(c) ==
    LET count == c.congestion_window_count + 1
    IN  IF count * c.num_connections >= c.congestion_window
        THEN [c EXCEPT !.congestion_window = Wrap(c.congestion_window + 1),
                       !.congestion_window_count = 0]
        ELSE [c EXCEPT !.congestion_window_count = count]

\* MaybeIncreaseCwnd, congestion avoidance in either mode.
CongestionAvoidance(c, growth) ==
    IF c.reno
    THEN RenoCongestionAvoidance(c)
    ELSE [c EXCEPT !.congestion_window =
              Min(c.max_tcp_congestion_window, c.congestion_window + growth)]

\* MaybeIncreaseCwnd without the return that ends the slow-start branch:
\* the acknowledgment is counted for congestion avoidance as well.
MaybeIncreaseCwndFallingThrough(c, is_cwnd_limited, growth) ==
    IF ~is_cwnd_limited
    THEN c
    ELSE IF c.congestion_window >= c.max_tcp_congestion_window
    THEN c
    ELSE IF InSlowStart(c)
    THEN CongestionAvoidance(
             [c EXCEPT !.congestion_window = Wrap(c.congestion_window + 1)],
             growth)
    ELSE CongestionAvoidance(c, growth)

\* MaybeIncreaseCwnd stopping only above the maximum window (> for >=).
MaybeIncreaseCwndPastMax(c, is_cwnd_limited, growth) ==
    IF ~is_cwnd_limited
    THEN c
    ELSE IF c.congestion_window > c.max_tcp_congestion_window
    THEN c
    ELSE IF InSlowStart(c)
    THEN [c EXCEPT !.congestion_window = Wrap(c.congestion_window + 1)]
    ELSE CongestionAvoidance(c, growth)

\* MaybeIncreaseCwnd without the IsCwndLimited test.
MaybeIncreaseCwndWhenIdle(c, is_cwnd_limited, growth) ==
    IF c.congestion_window >= c.max_tcp_congestion_window
    THEN c
    ELSE IF InSlowStart(c)
    THEN [c EXCEPT !.congestion_window = Wrap(c.congestion_window + 1)]
    ELSE CongestionAvoidance(c, growth)

\* MaybeIncreaseCwnd.  is_cwnd_limited is IsCwndLimited(bytes_in_flight) and
\* growth is what cubic_.CongestionWindowAfterAck adds to the window.
MaybeIncreaseCwnd(c, is_cwnd_limited, growth) ==
    IF ~is_cwnd_limited
    THEN c
    ELSE IF c.congestion_window >= c.max_tcp_congestion_window
    THEN c
    ELSE IF InSlowStart(c)
    THEN [c EXCEPT !.congestion_window = Wrap(c.congestion_window + 1)]
    ELSE CongestionAvoidance(c, growth)

\* HandleRetransmissionTimeout with its two assignments in the other order:
\* the threshold is half the collapsed window.
HandleRetransmissionTimeoutCollapsingFirst(c) ==
    [c EXCEPT !.slowstart_threshold = c.min_congestion_window \div 2,
              !.congestion_window = c.min_congestion_window]

HandleRetransmissionTimeout(c) ==
    [c EXCEPT !.slowstart_threshold = c.congestion_window \div 2,
              !.congestion_window = c.min_congestion_window]

\* TcpCubicSenderBase::OnConnectionMigration: the bookkeeping of the base
\* class, which writes none of the fields of the data model.
BaseOnConnectionMigration(c) == c

\* OnConnectionMigration resetting the threshold to the current maximum and
\* leaving the maximum as it is.
OnConnectionMigrationKeepingMax(c) ==
    [BaseOnConnectionMigration(c) EXCEPT
              !.congestion_window_count = 0,
              !.congestion_window = c.initial_tcp_congestion_window,
              !.slowstart_threshold = c.max_tcp_congestion_window]

\* OnConnectionMigration forgetting the last cutback as well.
OnConnectionMigrationForgettingCutback(c) ==
    [BaseOnConnectionMigration(c) EXCEPT !.congestion_window_count = 0,
              !.congestion_window = c.initial_tcp_congestion_window,
              !.slowstart_threshold = c.initial_max_tcp_congestion_window,
              !.max_tcp_congestion_window = c.initial_max_tcp_congestion_window,
              !.largest_sent_at_last_cutback = 0]

OnConnectionMigration(c) ==
    [BaseOnConnectionMigration(c) EXCEPT !.congestion_window_count = 0,
              !.congestion_window = c.initial_tcp_congestion_window,
              !.slowstart_threshold = c.initial_max_tcp_congestion_window,
              !.max_tcp_congestion_window = c.initial_max_tcp_congestion_window]

\* TcpCubicSenderBase::OnPacketSent records the packet as the largest sent.
OnPacketSent(c, packet_number) ==
    [c EXCEPT !.largest_sent_packet_number = packet_number]

----------------------------------------------------------------------------
(* The last call and the run of acknowledgments it belongs to *)

NoCall == [name |-> "", packet_number |-> 0, lost_bytes |-> 0,
           is_cwnd_limited |-> FALSE, value |-> 0]

NoRun == [live |-> FALSE, window |-> 0, acks |-> 0]

\* ceil(a / b)
CeilDiv(a, b) == (a + b - 1) \div b

\* A controller from which Reno congestion avoidance starts counting.
RenoRunStart(c) ==
    /\ c.reno
    /\ ~InSlowStart(c)
    /\ c.congestion_window_count = 0
    /\ c.congestion_window < c.max_tcp_congestion_window

\* The run after one more cwnd-limited acknowledgment delivered to c: the
\* run in progress, or a new one when c is a start of Reno counting.
RunAfterAck(c, r) ==
    LET current == IF r.live /\ r.acks < CeilDiv(r.window, c.num_connections)
                   THEN r
                   ELSE IF RenoRunStart(c)
                   THEN [live |-> TRUE, window |-> c.congestion_window,
                         acks |-> 0]
                   ELSE NoRun
    IN  IF current.live
        THEN [current EXCEPT !.acks = @ + 1]
        ELSE NoRun

\* Statistics counters stay within the model's bounds.
StatsBounded(c) ==
    /\ c.slowstart_packets_lost <= MaxPacketsLost
    /\ c.slowstart_bytes_lost <= MaxPacketsLost * kDefaultTCPMSS

\* One call: both controllers receive it, and a call of the observed method
\* is remembered.
Call(call, next_sender, next_twin, next_run) ==
    /\ StatsBounded(next_sender)
    /\ StatsBounded(next_twin)
    /\ sender' = next_sender
    /\ twin' = next_twin
    /\ IF call.name = observed
       THEN op' = call /\ prev' = sender /\ run' = next_run
       ELSE op' = NoCall /\ prev' = next_sender /\ run' = NoRun
    /\ UNCHANGED <<FLAGS_quic_sslr_byte_conservation, observed>>

----------------------------------------------------------------------------
(* Initial states: the controller just constructed *)

Constructed ==
    { TcpCubicSenderPackets(reno, initial, MaxWindow, sslr) :
        reno \in BOOLEAN, initial \in InitialWindows, sslr \in BOOLEAN }

\* The controller just constructed, with calls of `method` observed.
Start(method) ==
    /\ sender \in Constructed
    /\ FLAGS_quic_sslr_byte_conservation \in BOOLEAN
    /\ observed = method
    /\ op = NoCall
    /\ prev = sender
    /\ run = NoRun

Init == Start("") /\ twin = sender

InitLoss == Start("OnPacketLost") /\ twin = sender

InitAck == Start("MaybeIncreaseCwnd") /\ twin = sender

InitTimeout == Start("HandleRetransmissionTimeout") /\ twin = sender

InitMigration == Start("OnConnectionMigration") /\ twin = sender

InitResumption ==
    Start("SetCongestionWindowFromBandwidthAndRtt") /\ twin = sender

\* Reno controllers with the window at or below the maximum: every window,
\* threshold, count and number of connections that the calls can leave.  A
\* count above 0 stands beside the constructor's maximum window only when slow
\* start brought the window there, with the threshold no lower.
RenoBelowMax ==
    { [TcpCubicSenderPackets(TRUE, initial, MaxWindow, FALSE) EXCEPT
           !.max_tcp_congestion_window = max_window,
           !.congestion_window = window,
           !.slowstart_threshold = threshold,
           !.congestion_window_count = count,
           !.num_connections = num_connections] :
        initial \in InitialWindows,
        max_window \in {bytes \div kDefaultTCPMSS : bytes \in MaxWindowByteArgs}
                           \cup {MaxWindow},
        window \in 0..MaxWindow,
        threshold \in 0..(MaxWindow + 1),
        count \in 0..2,
        num_connections \in ConnectionArgs }

\* Acknowledgments are about to arrive at a Reno controller whose window is
\* at or below the maximum.
InitGrowth ==
    /\ sender \in RenoBelowMax
    /\ sender.congestion_window <= sender.max_tcp_congestion_window
    /\ (sender.congestion_window_count > 0 /\ sender.congestion_window = MaxWindow)
           => sender.slowstart_threshold >= sender.congestion_window
    /\ twin = sender
    /\ FLAGS_quic_sslr_byte_conservation = FALSE
    /\ observed = "MaybeIncreaseCwnd"
    /\ op = NoCall
    /\ prev = sender
    /\ run = NoRun

\* The twin's statistics sink holds other counts than the sender's.
InitTwin ==
    /\ Start("")
    /\ \E packets \in 0..1, bytes \in {0, kDefaultTCPMSS \div 2} :
          twin = [sender EXCEPT !.slowstart_packets_lost = packets,
                                !.slowstart_bytes_lost = bytes]

----------------------------------------------------------------------------
(* Actions: one per call into the controller *)

PacketSent ==
    \E packet_number \in (sender.largest_sent_packet_number + 1)..MaxPacketNumber :
        /\ Call([NoCall EXCEPT !.name = "OnPacketSent",
                               !.packet_number = packet_number],
                OnPacketSent(sender, packet_number),
                OnPacketSent(twin, packet_number),
                NoRun)

PacketLost ==
    \E packet_number \in 1..sender.largest_sent_packet_number,
       lost_bytes \in LostBytesArgs :
        /\ Call([NoCall EXCEPT !.name = "OnPacketLost",
                               !.packet_number = packet_number,
                               !.lost_bytes = lost_bytes],
                OnPacketLost(sender, packet_number, lost_bytes,
                             FLAGS_quic_sslr_byte_conservation),
                OnPacketLost(twin, packet_number, lost_bytes,
                             FLAGS_quic_sslr_byte_conservation),
                NoRun)

\* OnPacketLost reporting more than one segment of lost bytes.
LargePacketLost ==
    \E packet_number \in 1..sender.largest_sent_packet_number,
       lost_bytes \in LargeLostBytesArgs :
        /\ Call([NoCall EXCEPT !.name = "OnPacketLost",
                               !.packet_number = packet_number,
                               !.lost_bytes = lost_bytes],
                OnPacketLost(sender, packet_number, lost_bytes,
                             FLAGS_quic_sslr_byte_conservation),
                OnPacketLost(twin, packet_number, lost_bytes,
                             FLAGS_quic_sslr_byte_conservation),
                NoRun)

\* What cubic_.CongestionWindowAfterAck may add to the window of c; it is
\* called in CUBIC congestion avoidance only.
CubicGrowths(c, is_cwnd_limited) ==
    IF /\ is_cwnd_limited
       /\ c.congestion_window < c.max_tcp_congestion_window
       /\ ~InSlowStart(c)
       /\ ~c.reno
    THEN 0..MaxCubicGrowth
    ELSE {0}

PacketAcked ==
    \E is_cwnd_limited \in BOOLEAN :
    \E growth \in CubicGrowths(sender, is_cwnd_limited) :
        /\ Call([NoCall EXCEPT !.name = "MaybeIncreaseCwnd",
                               !.is_cwnd_limited = is_cwnd_limited,
                               !.value = growth],
                MaybeIncreaseCwnd(sender, is_cwnd_limited, growth),
                MaybeIncreaseCwnd(twin, is_cwnd_limited, growth),
                IF is_cwnd_limited THEN RunAfterAck(sender, run) ELSE NoRun)

\* MaybeIncreaseCwnd with IsCwndLimited(bytes_in_flight) true.
CwndLimitedAck ==
    \E growth \in CubicGrowths(sender, TRUE) :
        /\ Call([NoCall EXCEPT !.name = "MaybeIncreaseCwnd",
                               !.is_cwnd_limited = TRUE,
                               !.value = growth],
                MaybeIncreaseCwnd(sender, TRUE, growth),
                MaybeIncreaseCwnd(twin, TRUE, growth),
                RunAfterAck(sender, run))

RetransmissionTimeout ==
    /\ Call([NoCall EXCEPT !.name = "HandleRetransmissionTimeout"],
            HandleRetransmissionTimeout(sender),
            HandleRetransmissionTimeout(twin),
            NoRun)

ConnectionMigration ==
    /\ Call([NoCall EXCEPT !.name = "OnConnectionMigration"],
            OnConnectionMigration(sender),
            OnConnectionMigration(twin),
            NoRun)

SetWindowFromBandwidthAndRtt ==
    \E bytes_per_period \in BytesPerPeriodArgs :
        /\ Call([NoCall EXCEPT !.name = "SetCongestionWindowFromBandwidthAndRtt",
                               !.value = bytes_per_period],
                SetCongestionWindowFromBandwidthAndRtt(sender, bytes_per_period),
                SetCongestionWindowFromBandwidthAndRtt(twin, bytes_per_period),
                NoRun)

\* SetCongestionWindowFromBandwidthAndRtt called with a peer's estimate.
SetWindowFromBandwidthEstimate ==
    \E bytes_per_period \in BandwidthEstimates :
        /\ Call([NoCall EXCEPT !.name = "SetCongestionWindowFromBandwidthAndRtt",
                               !.value = bytes_per_period],
                SetCongestionWindowFromBandwidthAndRtt(sender, bytes_per_period),
                SetCongestionWindowFromBandwidthAndRtt(twin, bytes_per_period),
                NoRun)

SetWindowInPackets ==
    \E congestion_window \in WindowArgs :
        /\ Call([NoCall EXCEPT !.name = "SetCongestionWindowInPackets",
                               !.value = congestion_window],
                SetCongestionWindowInPackets(sender, congestion_window),
                SetCongestionWindowInPackets(twin, congestion_window),
                NoRun)

SetMinWindowInPackets ==
    \E congestion_window \in MinWindowArgs :
        /\ Call([NoCall EXCEPT !.name = "SetMinCongestionWindowInPackets",
                               !.value = congestion_window],
                SetMinCongestionWindowInPackets(sender, congestion_window),
                SetMinCongestionWindowInPackets(twin, congestion_window),
                NoRun)

SetMaxWindow ==
    \E max_congestion_window \in MaxWindowByteArgs :
        /\ Call([NoCall EXCEPT !.name = "SetMaxCongestionWindow",
                               !.value = max_congestion_window],
                SetMaxCongestionWindow(sender, max_congestion_window),
                SetMaxCongestionWindow(twin, max_congestion_window),
                NoRun)

SetEmulatedConnections ==
    \E num_connections \in ConnectionArgs :
        /\ Call([NoCall EXCEPT !.name = "SetNumEmulatedConnections",
                               !.value = num_connections],
                SetNumEmulatedConnections(sender, num_connections),
                SetNumEmulatedConnections(twin, num_connections),
                NoRun)

SlowstartExit ==
    /\ Call([NoCall EXCEPT !.name = "ExitSlowstart"],
            ExitSlowstart(sender),
            ExitSlowstart(twin),
            NoRun)

Next ==
    \/ PacketSent
    \/ PacketLost
    \/ PacketAcked
    \/ RetransmissionTimeout
    \/ ConnectionMigration
    \/ SetWindowFromBandwidthAndRtt
    \/ SetWindowInPackets
    \/ SetMinWindowInPackets
    \/ SetMaxWindow
    \/ SetEmulatedConnections
    \/ SlowstartExit

Spec == Init /\ [][Next]_vars

SpecLoss == InitLoss /\ [][Next]_vars

SpecAck == InitAck /\ [][Next]_vars

SpecTimeout == InitTimeout /\ [][Next]_vars

SpecMigration == InitMigration /\ [][Next]_vars

\* The events of a connection: no configuration setter is called.
NextEvents ==
    \/ PacketSent
    \/ PacketLost
    \/ LargePacketLost
    \/ PacketAcked
    \/ RetransmissionTimeout
    \/ ConnectionMigration

SpecEvents == InitLoss /\ [][NextEvents]_vars

\* The events of a connection, and bandwidth estimates of every size.
NextResumption ==
    \/ NextEvents
    \/ SetWindowFromBandwidthEstimate

SpecResumption == InitResumption /\ [][NextResumption]_vars

\* Acknowledgments only, and cwnd-limited ones keep being delivered.
SpecGrowth == InitGrowth /\ [][PacketAcked]_vars /\ WF_vars(CwndLimitedAck)

\* The same calls, delivered to two controllers whose statistics differ.
SpecTwin == InitTwin /\ [][Next]_vars

----------------------------------------------------------------------------
(* Properties *)

\* The fields of a controller that are not statistics counters.
Control(c) ==
    [c EXCEPT !.slowstart_packets_lost = 0,
              !.slowstart_bytes_lost = 0,
              !.tcp_loss_events = 0]

\* The last call was OnPacketLost for a packet sent before the last cutback.
LossBeforeCutback ==
    /\ op.name = "OnPacketLost"
    /\ op.packet_number <= prev.largest_sent_at_last_cutback

\* The last call was OnPacketLost for a packet sent after the last cutback.
LossCutback ==
    /\ op.name = "OnPacketLost"
    /\ op.packet_number > prev.largest_sent_at_last_cutback

\* C1: in every reachable state, setters included,
\* min_congestion_window <= congestion_window <= max_congestion_window.
WindowWithinBounds ==
    /\ sender.min_congestion_window <= sender.congestion_window
    /\ sender.congestion_window <= sender.max_tcp_congestion_window

CutbackPostcondition ==
    LossCutback =>
        /\ sender.slowstart_threshold = sender.congestion_window
        /\ sender.congestion_window >= sender.min_congestion_window
        /\ sender.largest_sent_at_last_cutback = prev.largest_sent_packet_number
        /\ sender.congestion_window_count = 0

\* C3 witness: a cutback in Reno congestion avoidance that cleared a running
\* count and was held up by the minimum window.
CutbackHappened ==
    /\ LossCutback
    /\ prev.congestion_window_count > 0
    /\ prev.largest_sent_at_last_cutback < prev.largest_sent_packet_number
    /\ sender.congestion_window < prev.congestion_window
    /\ sender.congestion_window = sender.min_congestion_window

MigrationPostcondition ==
    op.name = "OnConnectionMigration" =>
        /\ sender.congestion_window = sender.initial_tcp_congestion_window
        /\ sender.max_tcp_congestion_window =
               sender.initial_max_tcp_congestion_window
        /\ sender.slowstart_threshold = sender.initial_max_tcp_congestion_window
        /\ sender.congestion_window_count = 0
        /\ sender.initial_tcp_congestion_window \in InitialWindows
        /\ sender.initial_max_tcp_congestion_window = MaxWindow
        /\ OnConnectionMigration(sender) = sender

\* C5 witness: a migration from a controller whose window, maximum,
\* threshold and count had all moved away from the constructed ones.
MigrationHappened ==
    /\ op.name = "OnConnectionMigration"
    /\ prev.congestion_window # prev.initial_tcp_congestion_window
    /\ prev.max_tcp_congestion_window # prev.initial_max_tcp_congestion_window
    /\ prev.slowstart_threshold # prev.initial_max_tcp_congestion_window
    /\ prev.congestion_window_count > 0
    /\ sender.congestion_window = sender.initial_tcp_congestion_window

\* The last call was MaybeIncreaseCwnd with the sender cwnd-limited.
AckWhenCwndLimited ==
    /\ op.name = "MaybeIncreaseCwnd"
    /\ op.is_cwnd_limited

\* C6: a MaybeIncreaseCwnd call in slow start, with the window below the
\* maximum and the sender cwnd-limited, adds exactly 1 to the window and
\* changes neither the threshold nor congestion_window_count, in both modes.
SlowStartAckGrowsByOne ==
    (/\ AckWhenCwndLimited
     /\ InSlowStart(prev)
     /\ prev.congestion_window < prev.max_tcp_congestion_window)
    => /\ sender.congestion_window = prev.congestion_window + 1
       /\ sender.slowstart_threshold = prev.slowstart_threshold
       /\ sender.congestion_window_count = prev.congestion_window_count

\* C6 witness: a slow-start acknowledgment in Reno mode that found a count
\* left over from congestion avoidance.
SlowStartAckHappened ==
    /\ AckWhenCwndLimited
    /\ InSlowStart(prev)
    /\ prev.congestion_window < prev.max_tcp_congestion_window
    /\ prev.reno
    /\ prev.congestion_window_count > 0
    /\ sender.congestion_window = prev.congestion_window + 1

\* C7: with the window at or above the maximum, a MaybeIncreaseCwnd call
\* leaves the window and congestion_window_count unchanged.
AckAtMaxKeepsWindow ==
    (/\ op.name = "MaybeIncreaseCwnd"
     /\ prev.congestion_window >= prev.max_tcp_congestion_window)
    => /\ sender.congestion_window = prev.congestion_window
       /\ sender.congestion_window_count = prev.congestion_window_count

\* C7 witness: a cwnd-limited acknowledgment in slow start with the window
\* exactly at the maximum.
AckAtMaxHappened ==
    /\ AckWhenCwndLimited
    /\ prev.congestion_window = prev.max_tcp_congestion_window
    /\ InSlowStart(prev)
    /\ sender.congestion_window = prev.congestion_window

\* C8: in Reno congestion avoidance started with congestion_window_count 0
\* and window w below the maximum, after k consecutive cwnd-limited
\* acknowledgments the window is still w while k < ceil(w / num_connections),
\* and at k = ceil(w / num_connections) it is w + 1 with the count back at 0.
RenoGrowsAfterCeilAcks ==
    run.live =>
        LET needed == CeilDiv(run.window, sender.num_connections)
        IN  /\ run.acks < needed =>
                /\ sender.congestion_window = run.window
                /\ sender.congestion_window_count = run.acks
            /\ run.acks = needed =>
                /\ sender.congestion_window = run.window + 1
                /\ sender.congestion_window_count = 0

\* C8 witness: with two emulated connections a window of 3 became 4 on the
\* second acknowledgment.
RenoGrewAfterCeilAcks ==
    /\ run.live
    /\ run.window = 3
    /\ run.acks = 2
    /\ sender.num_connections = 2
    /\ prev.congestion_window = 3
    /\ prev.congestion_window_count = 1
    /\ sender.congestion_window = 4

\* C9: two controllers started in the same control state and given the same
\* calls have the same window and threshold, whatever their statistics
\* counters hold.
StatisticsDoNotSteer ==
    /\ sender.congestion_window = twin.congestion_window
    /\ sender.slowstart_threshold = twin.slowstart_threshold

\* C10: a MaybeIncreaseCwnd call with the sender not cwnd-limited changes no
\* field of the controller.
AckWhenNotCwndLimitedChangesNothing ==
    (/\ op.name = "MaybeIncreaseCwnd"
     /\ ~op.is_cwnd_limited)
    => sender = prev

\* C10 witness: such a call arrived in slow start below the maximum window,
\* where a cwnd-limited acknowledgment would have grown the window.
AckWhenNotCwndLimitedHappened ==
    /\ op.name = "MaybeIncreaseCwnd"
    /\ ~op.is_cwnd_limited
    /\ InSlowStart(prev)
    /\ prev.congestion_window < prev.max_tcp_congestion_window
    /\ sender.congestion_window = prev.congestion_window

\* C11: a controller just constructed, and the controller right after
\* HandleRetransmissionTimeout or OnConnectionMigration, is in slow start:
\* congestion_window < slowstart_threshold.
ResetEntersSlowStart ==
    /\ \A c \in Constructed : InSlowStart(c)
    /\ op.name \in {"HandleRetransmissionTimeout", "OnConnectionMigration"}
           => InSlowStart(sender)

\* C12: SetCongestionWindowFromBandwidthAndRtt leaves the window at
\* floor(bytes_per_period / kDefaultTCPMSS) clamped into
\* [kMinCongestionWindowForBandwidthResumption, kMaxCongestionWindow] and
\* changes no other field, whatever the estimate.
BandwidthWindowClamped ==
    op.name = "SetCongestionWindowFromBandwidthAndRtt" =>
        LET packets == op.value \div kDefaultTCPMSS
            clamped == IF packets < kMinCongestionWindowForBandwidthResumption
                       THEN kMinCongestionWindowForBandwidthResumption
                       ELSE IF packets > kMaxCongestionWindow
                       THEN kMaxCongestionWindow
                       ELSE packets
        IN  /\ sender.congestion_window = clamped
            /\ sender = [prev EXCEPT !.congestion_window = clamped]

\* C12 witnesses: an estimate of no bandwidth at all was raised to the
\* resumption minimum, from a window that was neither.
BandwidthWindowRaised ==
    /\ op.name = "SetCongestionWindowFromBandwidthAndRtt"
    /\ op.value = 0
    /\ prev.congestion_window < kMinCongestionWindowForBandwidthResumption
    /\ sender.congestion_window = kMinCongestionWindowForBandwidthResumption

\* C13: a loss for a packet sent after the last cutback applies one rule to
\* the window w of before the call: w - 1 with slow_start_large_reduction in
\* slow start (in Reno mode too), else trunc(w * RenoBeta) in Reno mode, else
\* CongestionWindowAfterPacketLoss(w); the new window is the greater of the
\* result and min_congestion_window.
CutbackAppliesOneRule ==
    LossCutback =>
        LET w == prev.congestion_window
            reduced == IF prev.slow_start_large_reduction /\ InSlowStart(prev)
                       THEN w - 1
                       ELSE IF prev.reno
                       THEN (w * RenoBetaNum(prev)) \div RenoBetaDen(prev)
                       ELSE CongestionWindowAfterPacketLoss(prev)
        IN  sender.congestion_window = Max(reduced, prev.min_congestion_window)

\* C14: whenever a loss for a packet sent after the last cutback arrives with
\* slow_start_large_reduction enabled and the controller in slow start, the
\* window is above 1 (DCHECK_LT(1u, congestion_window_) holds).
DecrementAssertionHolds ==
    (/\ LossCutback
     /\ prev.slow_start_large_reduction
     /\ InSlowStart(prev))
    => prev.congestion_window > 1

\* C15: with slow_start_large_reduction and the byte-conservation flag, a
\* loss for a packet sent before a cutback taken in slow start lowers the
\* window by one packet per segment of lost bytes: with B0 and B1 the
\* cumulative slowstart_bytes_lost before and after, the window becomes
\* max(min_congestion_window, w0 - (floor(B1 / MSS) - floor(B0 / MSS))).
ByteConservationReducesPerSegment ==
    (/\ LossBeforeCutback
     /\ prev.slow_start_large_reduction
     /\ FLAGS_quic_sslr_byte_conservation
     /\ prev.last_cutback_exited_slowstart)
    => LET segments == (sender.slowstart_bytes_lost \div kDefaultTCPMSS)
                       - (prev.slowstart_bytes_lost \div kDefaultTCPMSS)
       IN  sender.congestion_window =
               Max(prev.min_congestion_window,
                   prev.congestion_window - segments)

RenoStaysOutOfSlowStart ==
    [][(/\ sender.reno
        /\ InSlowStart(sender')
        /\ \/ ~InSlowStart(sender)
           \/ sender' = OnPacketLostCutback(sender))
       => ~(PacketAcked \/ PacketLost)]_vars

\* C17 witness: in Reno mode, after a loss event, a cwnd-limited
\* acknowledgment found the controller out of slow start, grew the window by
\* one and left it out of slow start.
RenoGrewOutOfSlowStart ==
    /\ AckWhenCwndLimited
    /\ prev.reno
    /\ prev.tcp_loss_events > 0
    /\ ~InSlowStart(prev)
    /\ sender.congestion_window = prev.congestion_window + 1
    /\ ~InSlowStart(sender)

\* C18: no OnPacketLost call raises the window, whether the packet was sent
\* before or after the last cutback.
LossNeverRaisesWindow ==
    op.name = "OnPacketLost" =>
        sender.congestion_window <= prev.congestion_window

\* C19: in Reno mode, when no setter is called,
\* congestion_window_count * num_connections < congestion_window.
RenoCountBelowWindow ==
    sender.reno =>
        sender.congestion_window_count * sender.num_connections
            < sender.congestion_window

\* C20: in Reno mode, from a window at or below the maximum, when cwnd-limited
\* acknowledgments keep being delivered and nothing else is called, the
\* window eventually equals max_congestion_window and stays equal to it.
RenoGrowthReachesMax ==
    <>[](sender.congestion_window = sender.max_tcp_congestion_window)

\* C20 witness: the acknowledgment that completed a count in congestion
\* avoidance raised the window to the maximum.
RenoGrowthReachedMax ==
    /\ AckWhenCwndLimited
    /\ ~InSlowStart(prev)
    /\ prev.congestion_window_count > 0
    /\ prev.congestion_window + 1 = prev.max_tcp_congestion_window
    /\ sender.congestion_window = sender.max_tcp_congestion_window

====
